---- MODULE Spec2Model ----
(***************************************************************************)
(* Model of src/src/App.jsx (Quizify): the App shell's page routing, the   *)
(* window-scoped attempt identity, and the QuizAttempt component: its      *)
(* state hooks, its mount effect (init + setInterval), handleSubmit and    *)
(* the responses of the requests it sends.                                 *)
(* Spec is that program with the answer inputs untouched; SpecAnswers adds *)
(* the answer inputs (handleAnswerSelect); SpecBoard is QuizList's         *)
(* leaderboard (showScoreboard and the modal) on the quiz page.            *)
(*                                                                         *)
(* React semantics the model relies on:                                    *)
(*  - a component's state lives from mount to unmount; a page change       *)
(*    unmounts the old page's component and runs its effect cleanup;       *)
(*  - the effect at lines 625-648 has an empty dependency list, so the     *)
(*    interval callback keeps the handleSubmit of the FIRST render, whose  *)
(*    closure holds the first render's state (quiz = null, answers = {},   *)
(*    timeRemaining = null, submitting = false);                           *)
(*  - an event handler sees the state of the latest render;                *)
(*  - a state setter of an unmounted component does nothing.               *)
(***************************************************************************)
EXTENDS Integers, Sequences, FiniteSets, TLC

\* ---------------------------------------------------------------- bounds
\* largest timeLimitMinutes of a quiz the service delivers
MaxTimeLimitMinutes == 1
\* number of questions of the quiz the service delivers
NumQuestions == 3
\* attempt ids the service allocates (POST /start)
MaxAttempts == 1
\* submit requests sent in one run
MaxPosts == 2
\* options of a multiple-choice question
NumOptions == 2
\* entries of a scoreboard response
MaxEntries == 4
\* scoreboard requests awaiting their response
MaxScoreboardFetches == 2
\* largest totalQuestions of an attempt the service reports
MaxTotalQuestions == 40
\* questions the authoring form may hold
MaxFormQuestions == 1
\* quiz save requests awaiting their response
MaxSaves == 1
\* quizzes the service holds
NumQuizzes == 2

\* ------------------------------------------------------ program constants
\* quizData.timeLimitMinutes * 60
SecondsPerMinute == 60
\* significand bits of a JavaScript Number (IEEE 754 binary64)
SignificandBits == 53

\* ------------------------------------------------------------ JS values
\* null / undefined, and a present value
Null == <<>>
Some(v) == <<v>>
Val(x) == x[1]

\* prev > 0 in JavaScript: null > 0 is false
GreaterThanZero(prev) == prev # Null /\ Val(prev) > 0

Pages == {"home", "login", "quiz", "quiz-attempt", "user-panel"}
QuestionIds == 1..NumQuestions

\* err.message of the three failures handleSubmit can catch
MsgNullQuiz == "Cannot read properties of null (reading 'timeLimitMinutes')"
MsgNotOk == "Failed to submit quiz"
MsgNetwork == "Failed to fetch"
\* alert text of showScoreboard's catch: currentUser is null | apiFetch threw
MsgScoreboardNoUser ==
  "Failed to load scoreboard: Cannot read properties of null (reading 'token')"
MsgScoreboardFailed == "Failed to load scoreboard: HTTP 500"
\* err.message of a rejected POST /start (apiFetch)
MsgStart == "HTTP 500"

VARIABLES
  currentPage,          \* App: useState('home')
  currentUser,          \* App: useState(null): "none" or "USER"
  restoring,            \* App's mount effect awaits the stored user's check
  history,              \* pages with an entry in window.history (pushState)
  quizAttemptId,        \* window.quizAttemptId, 0 = undefined
  currentQuizId,        \* window.currentQuizId, 0 = undefined
  quizResult,           \* window.quizResult: Null or Some(attemptId of the result)
  nextAttemptId,        \* the service's next attempt id
  mounted,              \* a QuizAttempt instance is mounted
  quiz,                 \* QuizAttempt: useState(null)
  currentQuestionIndex, \* QuizAttempt: useState(0)
  answers,              \* QuizAttempt: useState({})
  timeRemaining,        \* QuizAttempt: useState(null)
  submitting,           \* QuizAttempt: useState(false)
  interval,             \* the effect's interval: "none", "active", "cleared"
  quizFetch,            \* init's apiFetch: "none", "pending"
  inflight,             \* submit requests awaiting their response
  posted,               \* body of the POST /api/quiz/submit this step sent, else Null
  panelAttempts,        \* UserPanel: attempts, useState([])
  panelLoading,         \* UserPanel: loading, useState(true)
  scoreboardData,       \* QuizList: useState([])
  showScoreboardModal,  \* QuizList: useState(false)
  scoreboardLoading,    \* QuizList: useState(false)
  scoreboardFetches,    \* GET .../scoreboard requests awaiting their response
  showQuizForm,         \* AdminPanel: useState(false)
  quizForm,             \* AdminPanel: useState({ id: null, title: '', ... })
  formLoad,             \* startEditQuiz's / handleCopyQuiz's GET: "none", "edit", "copy"
  saves,                \* quiz save requests awaiting their response
  saveRequest,          \* the quiz save request this step sent, else Null
  listQuizzes,          \* QuizList: quizzes, useState([])
  listAttempts,         \* QuizList: attempts, useState([])
  listLoading,          \* QuizList: loading, useState(true)
  searchTerm,           \* QuizList: useState('')
  listFetch,            \* fetchData: "none", "quizzes", "attempts", "done", "failed"
  attemptHistory,       \* the service: the quizzes the user has an attempt of
  starts,               \* quizzes whose POST /start awaits its response
  startRequest,         \* the quiz whose POST /start this step sent, else Null
  alertMsg,             \* text of the alert() this step raised, "" = none
  event,                \* what else this step did: init's redirect, a selection
  postCount,            \* submit requests sent in this run
  succeeded,            \* attempt ids whose submit request succeeded
  manualSubmits,        \* this instance: clicks on Submit Quiz
  expirySignals,        \* this instance: handleSubmit calls of the interval
  sessionPosts,         \* this instance: submit requests sent
  failedSubmits,        \* this instance: submit requests that failed
  ticks                 \* this instance: interval callbacks since the quiz loaded

vars == <<currentPage, currentUser, restoring, history, quizAttemptId, currentQuizId,
          quizResult, nextAttemptId, mounted, quiz, currentQuestionIndex,
          answers, timeRemaining, submitting, interval, quizFetch, inflight,
          panelAttempts, panelLoading,
          scoreboardData, showScoreboardModal, scoreboardLoading,
          scoreboardFetches,
          showQuizForm, quizForm, formLoad, saves, saveRequest,
          listQuizzes, listAttempts, listLoading, searchTerm, listFetch,
          attemptHistory, starts, startRequest,
          posted, alertMsg, event, postCount, succeeded, manualSubmits,
          expirySignals, sessionPosts, failedSubmits, ticks>>

windowVars == <<quizAttemptId, currentQuizId, quizResult>>
appVars == <<currentPage, currentUser, restoring, history>>
boardVars == <<scoreboardData, showScoreboardModal, scoreboardLoading,
               scoreboardFetches>>
panelVars == <<panelAttempts, panelLoading>>
\* the state of the pages' own components, QuizAttempt's apart
formVars == <<showQuizForm, quizForm, formLoad, saves, saveRequest>>
listVars == <<listQuizzes, listAttempts, listLoading, searchTerm, listFetch,
              attemptHistory, starts, startRequest>>
pageVars == <<boardVars, panelVars, formVars, listVars>>
hookVars == <<quiz, currentQuestionIndex, answers, timeRemaining, submitting>>
countVars == <<manualSubmits, expirySignals, sessionPosts, failedSubmits, ticks>>

\* the events a step can log besides its request and its alert
NoEvent == [type |-> "none", questionId |-> 0, value |-> Null]
\* init found no user, quiz id or attempt id: navigateTo('quiz'); return
InitRedirected == [type |-> "redirect", questionId |-> 0, value |-> Null]
\* handleAnswerSelect(questionId, selectedOptionId, textAnswer) was called
Selected(q, v) == [type |-> "select", questionId |-> q, value |-> Some(v)]
\* AdminPanel's handleQuizSave was called
SaveClicked == [type |-> "save", questionId |-> 0, value |-> Null]

\* the answers of the first render: {}
NoAnswers == [q \in QuestionIds |-> Null]

\* AdminPanel: useState({ id: null, title: '', ..., questions: [] }), also
\* startCreateQuiz's form; a text is the sequence of its characters
EmptyForm == [id |-> Null, title |-> <<>>, questions |-> <<>>]

\* AdminPanel's quiz form as its first render leaves it
FormClosed ==
  /\ showQuizForm = FALSE
  /\ quizForm = EmptyForm
  /\ formLoad = "none"
  /\ saves = 0
  /\ saveRequest = Null

\* QuizList is not mounted
ListUnmounted ==
  /\ listFetch = "none"
  /\ listQuizzes = <<>>
  /\ listAttempts = <<>>
  /\ listLoading = TRUE
  /\ searchTerm = ""
  /\ attemptHistory = {}
  /\ starts = {}
  /\ startRequest = Null

\* quiz.timeLimitMinutes * 60
ConfiguredSeconds(qz) == Val(qz).timeLimitMinutes * SecondsPerMinute

Init ==
  /\ currentPage = "home"
  /\ currentUser = "none"
  /\ restoring = FALSE
  /\ history = {"home"}
  /\ quizAttemptId = 0
  /\ currentQuizId = 0
  /\ quizResult = Null
  /\ nextAttemptId = 1
  /\ mounted = FALSE
  /\ quiz = Null
  /\ currentQuestionIndex = 0
  /\ answers = NoAnswers
  /\ timeRemaining = Null
  /\ submitting = FALSE
  /\ interval = "none"
  /\ quizFetch = "none"
  /\ inflight = {}
  /\ posted = Null
  /\ panelAttempts = <<>>
  /\ panelLoading = TRUE
  /\ scoreboardData = <<>>
  /\ showScoreboardModal = FALSE
  /\ scoreboardLoading = FALSE
  /\ scoreboardFetches = 0
  /\ FormClosed
  /\ ListUnmounted
  /\ alertMsg = ""
  /\ event = NoEvent
  /\ postCount = 0
  /\ succeeded = {}
  /\ manualSubmits = 0
  /\ expirySignals = 0
  /\ sessionPosts = 0
  /\ failedSubmits = 0
  /\ ticks = 0


\* ----------------------------------------------------------- App routing
\* a step that sends no submit request and raises no alert
Quiet == posted' = Null /\ alertMsg' = ""

\* renderPage with an init that fetches whatever the user and the ids are
LandingWithoutInitGuard(p, user, ctx) ==
  IF p = "login" /\ user # "none" THEN "home"
  ELSE IF p = "user-panel" /\ user # "USER" THEN "home"
  ELSE p

\* renderPage: the page shown after setCurrentPage(p), following the
\* navigateTo calls made while rendering (login, user-panel) and by
\* QuizAttempt's init when it is mounted without its context
Landing(p, user, ctx) ==
  IF p = "login" /\ user # "none" THEN "home"
  ELSE IF p = "user-panel" /\ user # "USER" THEN "home"
  ELSE IF /\ p = "quiz-attempt"
          /\ ~mounted
          /\ (user = "none" \/ ~ctx) THEN "quiz"
  ELSE p

\* a request whose component instance is gone: its setSubmitting does nothing
Orphaned(reqs) == {[r EXCEPT !.live = FALSE] : r \in reqs}

\* QuizAttempt's first render and the start of its effect: init() has passed
\* its guard and awaits the quiz, setInterval has been called
MountQuizAttempt ==
  /\ mounted' = TRUE
  /\ quiz' = Null
  /\ currentQuestionIndex' = 0
  /\ answers' = NoAnswers
  /\ timeRemaining' = Null
  /\ submitting' = FALSE
  /\ interval' = "active"
  /\ quizFetch' = "pending"
  /\ manualSubmits' = 0
  /\ expirySignals' = 0
  /\ sessionPosts' = 0
  /\ failedSubmits' = 0
  /\ ticks' = 0

\* mutant of IntervalAfterCleanup: the effect returns no cleanup
IntervalLeftRunningAfterCleanup == "active"

\* the interval after the effect's cleanup: () => clearInterval(interval)
IntervalAfterCleanup == "none"

\* the effect's cleanup and the end of the instance's state
UnmountQuizAttempt ==
  /\ mounted' = FALSE
  /\ quiz' = Null
  /\ currentQuestionIndex' = 0
  /\ answers' = NoAnswers
  /\ timeRemaining' = Null
  /\ submitting' = FALSE
  /\ interval' = IntervalAfterCleanup
  /\ quizFetch' = "none"
  /\ manualSubmits' = 0
  /\ expirySignals' = 0
  /\ sessionPosts' = 0
  /\ failedSubmits' = 0
  /\ ticks' = 0

\* window.currentQuizId && window.quizAttemptId
HasContext == currentQuizId # 0 /\ quizAttemptId # 0

\* setCurrentPage(p) and the render that follows; ctx: whether the caller
\* leaves both window ids set; pushed: the pages the caller pushed to
\* window.history; reqs: the requests left in flight; sub: the value of
\* submitting if the mounted instance stays
ShowPage(p, user, ctx, pushed, reqs, sub) ==
  LET land == Landing(p, user, ctx) IN
  /\ currentPage' = land
  /\ event' = IF p = "quiz-attempt" /\ land = "quiz" THEN InitRedirected ELSE NoEvent
  /\ UNCHANGED pageVars
  /\ history' = history \cup pushed \cup {land}
  /\ IF land = "quiz-attempt"
       THEN /\ inflight' = reqs
            /\ IF mounted
                 THEN /\ submitting' = sub
                      /\ UNCHANGED <<mounted, quiz, currentQuestionIndex, answers,
                                     timeRemaining, interval, quizFetch, countVars>>
                 ELSE MountQuizAttempt
       ELSE IF mounted
              THEN /\ UnmountQuizAttempt
                   /\ inflight' = Orphaned(reqs)
              ELSE /\ inflight' = reqs
                   /\ UNCHANGED <<mounted, hookVars, interval, quizFetch, countVars>>

\* navigateTo(page): setCurrentPage and history.pushState
NavigateTo(p, user) == ShowPage(p, user, HasContext, {p}, inflight, submitting)

\* a click on a link of the Header or on a page's navigation button
ClickLink(p) ==
  /\ p \in {"home", "quiz"}
       \/ (p = "login" /\ currentUser = "none")
       \/ (p = "user-panel" /\ currentUser = "USER")
  /\ NavigateTo(p, currentUser)
  /\ Quiet
  /\ UNCHANGED <<currentUser, restoring, windowVars, nextAttemptId, postCount,
                 succeeded>>

\* handlePopState: the browser's Back / Forward to an entry of the history
PopState(p) ==
  /\ p \in history
  /\ ShowPage(p, currentUser, HasContext, {}, inflight, submitting)
  /\ Quiet
  /\ UNCHANGED <<currentUser, restoring, windowVars, nextAttemptId, postCount,
                 succeeded>>

\* LoginPage.handleSubmit with a successful response: handleLogin(user)
Login ==
  /\ currentPage = "login"
  /\ currentUser' = "USER"
  /\ restoring' = FALSE
  /\ NavigateTo("user-panel", "USER")
  /\ Quiet
  /\ UNCHANGED <<windowVars, nextAttemptId, postCount, succeeded>>

\* handleLogout
Logout ==
  /\ currentUser # "none"
  /\ currentUser' = "none"
  /\ NavigateTo("home", "none")
  /\ Quiet
  /\ UNCHANGED <<restoring, windowVars, nextAttemptId, postCount, succeeded>>

\* QuizList's Start Quiz button with a successful POST /start
StartQuiz ==
  /\ currentPage = "quiz"
  /\ currentUser # "none"
  /\ nextAttemptId <= MaxAttempts
  /\ quizAttemptId' = nextAttemptId
  /\ currentQuizId' = 1
  /\ nextAttemptId' = nextAttemptId + 1
  /\ ShowPage("quiz-attempt", currentUser, TRUE, {"quiz-attempt"}, inflight,
              submitting)
  /\ Quiet
  /\ UNCHANGED <<currentUser, restoring, quizResult, postCount, succeeded>>

\* QuizList's Start Quiz button with a rejected POST /start: alert(err.message)
StartQuizFailed ==
  /\ currentPage = "quiz"
  /\ currentUser # "none"
  /\ alertMsg' = MsgStart
  /\ posted' = Null
  /\ event' = NoEvent
  /\ UNCHANGED pageVars
  /\ UNCHANGED <<appVars, windowVars, nextAttemptId, mounted, hookVars, interval,
                 quizFetch, inflight, postCount, succeeded, countVars>>

\* the browser loads the page anew at the current hash: the window globals,
\* every component's state and the pending responses are gone; App starts with
\* no user, shows the hash's page and, if localStorage holds a user, checks it
Reload ==
  /\ currentUser' = "none"
  /\ restoring' = (currentUser = "USER" \/ restoring)
  /\ quizAttemptId' = 0
  /\ currentQuizId' = 0
  /\ quizResult' = Null
  /\ inflight' = {}
  /\ LET land == IF currentPage = "quiz-attempt" THEN "quiz"
                 ELSE Landing(currentPage, "none", FALSE) IN
     /\ currentPage' = land
     /\ history' = history \cup {land}
     /\ event' = IF currentPage = "quiz-attempt" THEN InitRedirected ELSE NoEvent
  /\ IF mounted THEN UnmountQuizAttempt
       ELSE UNCHANGED <<mounted, hookVars, interval, quizFetch, countVars>>
  /\ Quiet
  /\ UNCHANGED <<nextAttemptId, postCount, succeeded, pageVars>>

\* App's mount effect: the stored user's check resolves, setCurrentUser(user)
RestoreUser ==
  /\ restoring
  /\ restoring' = FALSE
  /\ currentUser' = "USER"
  /\ ShowPage(currentPage, "USER", HasContext, {}, inflight, submitting)
  /\ Quiet
  /\ UNCHANGED <<windowVars, nextAttemptId, postCount, succeeded>>

\* App's mount effect: the check rejects, localStorage.removeItem('currentUser')
RestoreFailed ==
  /\ restoring
  /\ restoring' = FALSE
  /\ Quiet
  /\ event' = NoEvent
  /\ UNCHANGED pageVars
  /\ UNCHANGED <<currentPage, currentUser, history, windowVars, nextAttemptId,
                 mounted, hookVars, interval, quizFetch, inflight, postCount,
                 succeeded, countVars>>

\* UserPanel's Take Another Quiz button (Latest Result tab)
TakeAnotherQuiz ==
  /\ currentPage = "user-panel"
  /\ quizResult # Null
  /\ quizResult' = Null
  /\ NavigateTo("quiz", currentUser)
  /\ Quiet
  /\ UNCHANGED <<currentUser, restoring, quizAttemptId, currentQuizId,
                 nextAttemptId, postCount, succeeded>>


\* ------------------------------------------------------------ QuizAttempt
\* Object.entries(answers).map(...): one entry per answered question, in
\* ascending key order (integer-like keys)
RECURSIVE EntriesUpTo(_, _)
EntriesUpTo(a, n) ==
  IF n = 0 THEN <<>>
  ELSE LET rest == EntriesUpTo(a, n - 1) IN
       IF a[n] = Null THEN rest
       ELSE Append(rest, [questionId |-> n,
                          selectedOptionId |-> Val(a[n]).selectedOptionId,
                          textAnswer |-> Val(a[n]).textAnswer])

SubmissionAnswers(a) == EntriesUpTo(a, NumQuestions)

\* Number(x) of a null or numeric value, as the subtraction coerces it
Num(x) == IF x = Null THEN 0 ELSE Val(x)

\* mutant of ElapsedSeconds: the remaining time is sent as the time taken
RemainingSeconds(qz, remaining) == Num(remaining)

\* Math.ceil((quiz.timeLimitMinutes * 60) - timeRemaining); both integers
ElapsedSeconds(qz, remaining) == ConfiguredSeconds(qz) - Num(remaining)

\* mutant of RenderClosure: the handler reads the answers of the first render
RenderClosureWithFirstAnswers ==
  [submitting |-> submitting, quiz |-> quiz, answers |-> NoAnswers,
   timeRemaining |-> timeRemaining]

\* the state a handleSubmit closure sees: that of the render which made it
RenderClosure ==
  [submitting |-> submitting, quiz |-> quiz, answers |-> answers,
   timeRemaining |-> timeRemaining]

\* the closure of the handleSubmit the effect captured: the first render's
FirstRenderClosure ==
  [submitting |-> FALSE, quiz |-> Null, answers |-> NoAnswers,
   timeRemaining |-> Null]

\* handleSubmit up to its first await, run with closure c
HandleSubmit(c) ==
  IF c.submitting
    THEN /\ posted' = Null
         /\ alertMsg' = ""
         /\ UNCHANGED <<submitting, inflight, postCount, sessionPosts>>
    ELSE IF c.quiz = Null
      \* quiz.timeLimitMinutes throws inside the try: alert, setSubmitting(false)
      THEN /\ alertMsg' = MsgNullQuiz
           /\ posted' = Null
           /\ submitting' = FALSE
           /\ UNCHANGED <<inflight, postCount, sessionPosts>>
      \* setSubmitting(true), fetch(..., { method: 'POST', body })
      ELSE /\ submitting' = TRUE
           /\ posted' = Some([quizAttemptId |-> quizAttemptId,
                              answers |-> SubmissionAnswers(c.answers),
                              timeTakenSeconds |->
                                ElapsedSeconds(c.quiz, c.timeRemaining)])
           /\ inflight' = inflight \cup {[id |-> postCount + 1,
                                          attemptId |-> quizAttemptId,
                                          live |-> TRUE]}
           /\ postCount' = postCount + 1
           /\ sessionPosts' = sessionPosts + 1
           /\ alertMsg' = ""

\* the count of expiry signals stops at 2
Bump(n) == IF n < 2 THEN n + 1 ELSE n

\* mutant of ExpiryClosure: the callback reaches the latest render's handler
ExpiryClosureOfLatestRender == RenderClosure

\* the closure the interval callback calls handleSubmit with
ExpiryClosure == FirstRenderClosure

\* mutant of NextRemaining: a tick takes two seconds off
NextRemainingByTwo(prev) ==
  IF GreaterThanZero(prev) /\ Val(prev) >= 2 THEN Val(prev) - 2 ELSE 0

\* mutant of NextRemaining: the updater decrements without its prev > 0 test
NextRemainingUnclamped(prev) == Num(prev) - 1

\* the updater's result for prev: prev - 1 while prev > 0, else 0
NextRemaining(prev) == IF GreaterThanZero(prev) THEN Val(prev) - 1 ELSE 0

\* mutant of IntervalAfterExpiry: the callback omits clearInterval
IntervalLeftRunning == "active"

\* the interval the callback leaves behind when it has signalled expiry
IntervalAfterExpiry == "cleared"

\* init's response: setQuiz(quizData); setTimeRemaining(timeLimitMinutes * 60)
QuizLoaded(m) ==
  /\ mounted
  /\ quizFetch = "pending"
  /\ quizFetch' = "none"
  /\ quiz' = Some([timeLimitMinutes |-> m, total |-> NumQuestions])
  /\ timeRemaining' = Some(m * SecondsPerMinute)
  /\ ticks' = 0
  /\ Quiet
  /\ event' = NoEvent
  /\ UNCHANGED pageVars
  /\ UNCHANGED <<appVars, windowVars, nextAttemptId, mounted, currentQuestionIndex,
                 answers, submitting, interval, inflight, postCount, succeeded,
                 manualSubmits, expirySignals, sessionPosts, failedSubmits>>

\* init's apiFetch rejects: nothing catches it
QuizLoadFailed ==
  /\ mounted
  /\ quizFetch = "pending"
  /\ quizFetch' = "none"
  /\ Quiet
  /\ event' = NoEvent
  /\ UNCHANGED pageVars
  /\ UNCHANGED <<appVars, windowVars, nextAttemptId, mounted, hookVars, interval,
                 inflight, postCount, succeeded, countVars>>

\* the interval callback, run for as long as the interval is not cleared:
\* setTimeRemaining(prev => ...)
Tick ==
  /\ interval = "active"
  /\ timeRemaining' = Some(NextRemaining(timeRemaining))
  /\ event' = NoEvent
  /\ UNCHANGED pageVars
  /\ ticks' = IF quiz # Null /\ ticks <= MaxTimeLimitMinutes * SecondsPerMinute
                THEN ticks + 1 ELSE ticks
  /\ IF GreaterThanZero(timeRemaining)
       THEN /\ Quiet
            /\ UNCHANGED <<submitting, inflight, postCount, sessionPosts,
                           interval, expirySignals>>
       ELSE /\ HandleSubmit(ExpiryClosure)
            /\ interval' = IntervalAfterExpiry
            /\ expirySignals' = Bump(expirySignals)
  /\ UNCHANGED <<appVars, windowVars, nextAttemptId, mounted, quiz,
                 currentQuestionIndex, answers, quizFetch, succeeded,
                 manualSubmits, failedSubmits>>

\* mutant of PreviousDisabled: the button is never disabled
PreviousNeverDisabled == FALSE

\* disabled={currentQuestionIndex === 0}
PreviousDisabled == currentQuestionIndex = 0

\* the Previous button
Previous ==
  /\ mounted
  /\ quiz # Null
  /\ ~PreviousDisabled
  /\ currentQuestionIndex' = currentQuestionIndex - 1
  /\ Quiet
  /\ event' = NoEvent
  /\ UNCHANGED pageVars
  /\ UNCHANGED <<appVars, windowVars, nextAttemptId, mounted, quiz, answers,
                 timeRemaining, submitting, interval, quizFetch, inflight,
                 postCount, succeeded, countVars>>

\* the Next button (rendered unless the last question is shown)
NextQuestion ==
  /\ mounted
  /\ quiz # Null
  /\ currentQuestionIndex + 1 # Val(quiz).total
  /\ currentQuestionIndex' = currentQuestionIndex + 1
  /\ Quiet
  /\ event' = NoEvent
  /\ UNCHANGED pageVars
  /\ UNCHANGED <<appVars, windowVars, nextAttemptId, mounted, quiz, answers,
                 timeRemaining, submitting, interval, quizFetch, inflight,
                 postCount, succeeded, countVars>>

\* question.type of the quiz's questions, by id
QuestionTypes == <<"MULTIPLE_CHOICE", "TRUE_FALSE", "TEXT">>
QuestionType(q) == QuestionTypes[((q - 1) % Len(QuestionTypes)) + 1]

OptionIds == 1..NumOptions
\* what a textarea can hold
Texts == {"", "a"}

\* mutant of Choices: the True/False radios pass an option id as well
ChoicesWithBothFields(q) ==
  IF QuestionType(q) = "MULTIPLE_CHOICE"
    THEN {[selectedOptionId |-> Some(o), textAnswer |-> Null] : o \in OptionIds}
  ELSE IF QuestionType(q) = "TRUE_FALSE"
    THEN {[selectedOptionId |-> Some(o), textAnswer |-> Some(t)] :
            o \in OptionIds, t \in {"True", "False"}}
  ELSE {[selectedOptionId |-> Null, textAnswer |-> Some(t)] : t \in Texts}

\* the (selectedOptionId, textAnswer) pairs the inputs of question q pass to
\* handleAnswerSelect: (option.id, null) | (null, 'True'|'False') | (null, text)
Choices(q) ==
  IF QuestionType(q) = "MULTIPLE_CHOICE"
    THEN {[selectedOptionId |-> Some(o), textAnswer |-> Null] : o \in OptionIds}
  ELSE IF QuestionType(q) = "TRUE_FALSE"
    THEN {[selectedOptionId |-> Null, textAnswer |-> Some(t)] :
            t \in {"True", "False"}}
  ELSE {[selectedOptionId |-> Null, textAnswer |-> Some(t)] : t \in Texts}

\* value={answers[question.id]?.textAnswer || ''}
TextShown(a, q) == IF a[q] = Null THEN "" ELSE Val(Val(a[q]).textAnswer)

\* onChange fires when the input's value changes: an unchecked radio is
\* checked, or the textarea's text differs from the text shown
InputChanges(q, v) ==
  IF QuestionType(q) = "TEXT" THEN v.textAnswer # Some(TextShown(answers, q))
  ELSE answers[q] # Some(v)

\* mutant of HandleAnswerSelect: the updater drops ...prev
HandleAnswerSelectWithoutSpread(prev, q, v) == [NoAnswers EXCEPT ![q] = Some(v)]

\* prev => ({ ...prev, [questionId]: { selectedOptionId, textAnswer } })
HandleAnswerSelect(prev, q, v) == [prev EXCEPT ![q] = Some(v)]

\* an input of the question shown, questions[currentQuestionIndex], changes
AnswerSelect(q, v) ==
  /\ mounted
  /\ quiz # Null
  /\ q = currentQuestionIndex + 1
  /\ InputChanges(q, v)
  /\ answers' = HandleAnswerSelect(answers, q, v)
  /\ event' = Selected(q, v)
  /\ Quiet
  /\ UNCHANGED <<appVars, windowVars, nextAttemptId, mounted, quiz,
                 currentQuestionIndex, timeRemaining, submitting, interval,
                 quizFetch, inflight, postCount, succeeded, countVars,
                 pageVars>>

\* a click on Submit Quiz (rendered at the last question, disabled={submitting})
ClickSubmit ==
  /\ mounted
  /\ quiz # Null
  /\ currentQuestionIndex + 1 = Val(quiz).total
  /\ ~submitting
  /\ postCount < MaxPosts
  /\ HandleSubmit(RenderClosure)
  /\ manualSubmits' = manualSubmits + 1
  /\ event' = NoEvent
  /\ UNCHANGED pageVars
  /\ UNCHANGED <<appVars, windowVars, nextAttemptId, mounted, quiz,
                 currentQuestionIndex, answers, timeRemaining, interval,
                 quizFetch, succeeded, expirySignals, failedSubmits, ticks>>

\* mutant of SubmittingAfterFailure: the final setSubmitting(false) is skipped
SubmittingKeptAfterFailure == submitting

\* the flag after handleSubmit's catch and its final setSubmitting(false)
SubmittingAfterFailure == FALSE

\* the response of request r is ok: window.quizResult = result,
\* navigateTo('user-panel'), setSubmitting(false)
SubmitSucceeded(r) ==
  /\ r \in inflight
  /\ succeeded' = succeeded \cup {r.attemptId}
  /\ quizResult' = Some(r.attemptId)
  /\ ShowPage("user-panel", currentUser, HasContext, {"user-panel"},
              inflight \ {r}, IF r.live THEN FALSE ELSE submitting)
  /\ Quiet
  /\ UNCHANGED <<currentUser, restoring, quizAttemptId, currentQuizId,
                 nextAttemptId, postCount>>

\* fetch rejects (msg = MsgNetwork) or the response is not ok (MsgNotOk):
\* alert(err.message), setSubmitting(false)
SubmitFailed(r, msg) ==
  /\ r \in inflight
  /\ inflight' = inflight \ {r}
  /\ alertMsg' = msg
  /\ posted' = Null
  /\ event' = NoEvent
  /\ UNCHANGED pageVars
  /\ IF r.live
       THEN /\ submitting' = SubmittingAfterFailure
            /\ failedSubmits' = failedSubmits + 1
       ELSE UNCHANGED <<submitting, failedSubmits>>
  /\ UNCHANGED <<appVars, windowVars, nextAttemptId, mounted, quiz,
                 currentQuestionIndex, answers, timeRemaining, interval,
                 quizFetch, postCount, succeeded, manualSubmits,
                 expirySignals, sessionPosts, ticks>>

Next ==
  \/ \E p \in Pages : ClickLink(p)
  \/ \E p \in Pages : PopState(p)
  \/ Login
  \/ Logout
  \/ Reload
  \/ RestoreUser
  \/ RestoreFailed
  \/ StartQuiz
  \/ StartQuizFailed
  \/ TakeAnotherQuiz
  \/ \E m \in 1..MaxTimeLimitMinutes : QuizLoaded(m)
  \/ QuizLoadFailed
  \/ Tick
  \/ Previous
  \/ NextQuestion
  \/ ClickSubmit
  \/ \E r \in inflight : SubmitSucceeded(r)
  \/ \E r \in inflight, msg \in {MsgNotOk, MsgNetwork} : SubmitFailed(r, msg)

Spec == Init /\ [][Next]_vars

\* the interval fires every second while it is set
FairSpec == Spec /\ WF_vars(Tick)

\* the same program with the answer inputs in use
NextAnswers ==
  \/ Next
  \/ \E q \in QuestionIds : \E v \in Choices(q) : AnswerSelect(q, v)

SpecAnswers == Init /\ [][NextAnswers]_vars

\* ------------------------------------------------ UserPanel score card
\* JavaScript Numbers are binary64 floating-point values.  A positive one is
\* held as [m, e]: m its 53 significand bits, first bit 1, most significant
\* first, and e the exponent of the last bit, so that its value is m * 2^e.
\* The bits are computed with small integers only.

\* the value of a short bit sequence
RECURSIVE BitsValue(_)
BitsValue(bits) ==
  IF bits = <<>> THEN 0
  ELSE 2 * BitsValue(SubSeq(bits, 1, Len(bits) - 1)) + bits[Len(bits)]

Zeros(n) == [i \in 1..n |-> 0]

\* bits + 1, one bit longer: the ones at the end turn 0, the 0 before them 1
Increment(bits) ==
  [i \in 1..(Len(bits) + 1) |->
     IF \A k \in (i + 1)..(Len(bits) + 1) : bits[k - 1] = 1
       THEN (IF i = 1 THEN 1 ELSE 1 - bits[i - 1])
       ELSE (IF i = 1 THEN 0 ELSE bits[i - 1])]

\* bits in groups of LimbBits, most significant first; Len(bits) a multiple
LimbBits == 10
ToLimbs(bits) ==
  [i \in 1..(Len(bits) \div LimbBits) |->
     BitsValue(SubSeq(bits, LimbBits * (i - 1) + 1, LimbBits * i))]

FromLimbs(limbs) ==
  [i \in 1..(LimbBits * Len(limbs)) |->
     (limbs[((i - 1) \div LimbBits) + 1]
        \div 2^(LimbBits - 1 - ((i - 1) % LimbBits))) % 2]

\* limbs * k + carry for a small k; one limb longer
RECURSIVE TimesLimbs(_, _, _)
TimesLimbs(limbs, k, carry) ==
  IF limbs = <<>> THEN <<carry>>
  ELSE LET product == limbs[Len(limbs)] * k + carry IN
       Append(TimesLimbs(SubSeq(limbs, 1, Len(limbs) - 1), k,
                         product \div 2^LimbBits),
              product % 2^LimbBits)

\* bits without its leading zeros
RECURSIVE StripZeros(_)
StripZeros(bits) ==
  IF bits # <<>> /\ bits[1] = 0 THEN StripZeros(Tail(bits)) ELSE bits

\* round to nearest, ties to even: bits (first bit 1, at least 54 of them,
\* last bit of exponent e) followed by a tail that is nonzero iff sticky
RoundToNearestEven(bits, sticky, e) ==
  LET len == Len(bits)
      keep == SubSeq(bits, 1, SignificandBits)
      guard == bits[SignificandBits + 1]
      rest == sticky \/ \E i \in (SignificandBits + 2)..len : bits[i] = 1
      up == guard = 1 /\ (rest \/ keep[SignificandBits] = 1)
      inc == Increment(keep)
      exp == e + (len - SignificandBits)
  IN IF ~up THEN [m |-> keep, e |-> exp]
     ELSE IF inc[1] = 1 THEN [m |-> SubSeq(inc, 1, SignificandBits), e |-> exp + 1]
     ELSE [m |-> SubSeq(inc, 2, SignificandBits + 1), e |-> exp]

\* the zero bits that follow the binary point of r / t, for 0 < r < t
RECURSIVE LeadingZeros(_, _)
LeadingZeros(r, t) == IF 2 * r >= t THEN 0 ELSE 1 + LeadingZeros(2 * r, t)

\* (r * 2^n) % t, taken LimbBits doublings at a time
RECURSIVE DivRem(_, _, _)
DivRem(r, t, n) ==
  IF n <= LimbBits THEN (r * 2^n) % t
  ELSE DivRem((r * 2^LimbBits) % t, t, n - LimbBits)

\* the next n bits of the binary expansion of r / t, for 0 <= r < t
DivBits(r, t, n) == [i \in 1..n |-> (2 * DivRem(r, t, i - 1)) \div t]

\* 1.0
One == [m |-> <<1>> \o Zeros(SignificandBits - 1), e |-> 1 - SignificandBits]

\* c / t for integers 0 < c <= t: the quotient rounded to a Number
Divide(c, t) ==
  IF c = t THEN One
  ELSE LET z == LeadingZeros(c, t)
           r == c * 2^z
       IN RoundToNearestEven(DivBits(r, t, SignificandBits + 1),
                             DivRem(r, t, SignificandBits + 1) # 0,
                             0 - (z + SignificandBits + 1))

\* x * 100: the product rounded to a Number
Times100(x) ==
  LET padded == Zeros(6 * LimbBits - SignificandBits) \o x.m
      product == FromLimbs(TimesLimbs(ToLimbs(padded), 100, 0))
  IN RoundToNearestEven(StripZeros(product), FALSE, x.e)

\* Math.round(x) of a Number 0 < x < 2^52: the nearest integer, a tie going up
MathRound(x) ==
  LET n == SignificandBits + x.e   \* bits before the binary point
  IN IF n < 0 THEN 0
     ELSE IF n = 0 THEN x.m[1]
     ELSE BitsValue(SubSeq(x.m, 1, n)) + x.m[n + 1]

\* what the card shows as a percentage: a number, or the text NaN
Shown(n) == [kind |-> "number", value |-> n]
NaN == [kind |-> "NaN", value |-> 0]

\* Math.round(attempt.correctAnswers / attempt.totalQuestions * 100)
\* for integers 0 <= correctAnswers <= totalQuestions; 0 / 0 is NaN
Percentage(attempt) ==
  IF attempt.totalQuestions = 0 THEN NaN
  ELSE IF attempt.correctAnswers = 0 THEN Shown(0)
  ELSE Shown(MathRound(Times100(Divide(attempt.correctAnswers,
                                       attempt.totalQuestions))))

\* percentage >= 80 ? green : percentage >= 60 ? amber : red (NaN >= n is false)
ScoreColor(pct) ==
  IF pct.kind = "number" /\ pct.value >= 80 THEN "#10b981"
  ELSE IF pct.kind = "number" /\ pct.value >= 60 THEN "#f59e0b"
  ELSE "#ef4444"

\* getScoreCard(attempt): the Score, Correct and Incorrect figures of the card
GetScoreCard(attempt) ==
  [percentage |-> Percentage(attempt),
   scoreColor |-> ScoreColor(Percentage(attempt)),
   correct |-> attempt.correctAnswers,
   incorrect |-> attempt.totalQuestions - attempt.correctAnswers]

\* the attempts the service can report
Attempts ==
  {a \in [correctAnswers : 0..MaxTotalQuestions,
          totalQuestions : 0..MaxTotalQuestions] :
     a.correctAnswers <= a.totalQuestions}

\* the application on the user's dashboard, fetchAttempts awaiting its data
InitPanel ==
  /\ currentPage = "user-panel"
  /\ currentUser = "USER"
  /\ restoring = FALSE
  /\ history = {"home", "login", "user-panel"}
  /\ quizAttemptId = 0
  /\ currentQuizId = 0
  /\ quizResult = Null
  /\ nextAttemptId = 1
  /\ mounted = FALSE
  /\ quiz = Null
  /\ currentQuestionIndex = 0
  /\ answers = NoAnswers
  /\ timeRemaining = Null
  /\ submitting = FALSE
  /\ interval = "none"
  /\ quizFetch = "none"
  /\ inflight = {}
  /\ posted = Null
  /\ panelAttempts = <<>>
  /\ panelLoading = TRUE
  /\ scoreboardData = <<>>
  /\ showScoreboardModal = FALSE
  /\ scoreboardLoading = FALSE
  /\ scoreboardFetches = 0
  /\ FormClosed
  /\ ListUnmounted
  /\ alertMsg = ""
  /\ event = NoEvent
  /\ postCount = 0
  /\ succeeded = {}
  /\ manualSubmits = 0
  /\ expirySignals = 0
  /\ sessionPosts = 0
  /\ failedSubmits = 0
  /\ ticks = 0

\* a step of UserPanel leaves the rest of the application alone
OnUserPanel ==
  /\ currentPage = "user-panel"
  /\ posted' = Null
  /\ alertMsg' = ""
  /\ event' = NoEvent
  /\ UNCHANGED <<appVars, windowVars, nextAttemptId, mounted, hookVars,
                 interval, quizFetch, inflight, postCount, succeeded, countVars,
                 boardVars, formVars, listVars>>

\* fetchAttempts after its await: setAttempts(data), setLoading(false)
AttemptsLoaded(data) ==
  /\ OnUserPanel
  /\ panelLoading
  /\ panelAttempts' = data
  /\ panelLoading' = FALSE

\* fetchAttempts: apiFetch rejects, catch (err) {}, setLoading(false)
AttemptsFailed ==
  /\ OnUserPanel
  /\ panelLoading
  /\ panelLoading' = FALSE
  /\ UNCHANGED panelAttempts

\* {!loading && attempts.map(attempt => getScoreCard(attempt))}
ScoreCards ==
  IF panelLoading THEN <<>>
  ELSE [i \in 1..Len(panelAttempts) |-> GetScoreCard(panelAttempts[i])]

NextPanel ==
  \/ \E a \in Attempts : AttemptsLoaded(<<a>>)
  \/ AttemptsFailed

SpecPanel == InitPanel /\ [][NextPanel]_vars

\* --------------------------------------------------- QuizList leaderboard
\* a.score of the entries of a scoreboard response
Scores == {60, 80, 95}

\* the bodies the service can answer GET /api/quiz/{id}/scoreboard with: the
\* scores of its entries, in the order delivered
Responses == UNION {[1..n -> Scores] : n \in 0..MaxEntries}

\* the entries of a response; an entry's id is its position in the response
Entries(scores) == [i \in 1..Len(scores) |-> [id |-> i, score |-> scores[i]]]

\* the application on the quiz page, before a Leaderboard button is used
InitBoard ==
  /\ currentPage = "quiz"
  /\ currentUser \in {"none", "USER"}
  /\ restoring = FALSE
  /\ history = IF currentUser = "USER"
                 THEN {"home", "login", "user-panel", "quiz"}
                 ELSE {"home", "quiz"}
  /\ quizAttemptId = 0
  /\ currentQuizId = 0
  /\ quizResult = Null
  /\ nextAttemptId = 1
  /\ mounted = FALSE
  /\ quiz = Null
  /\ currentQuestionIndex = 0
  /\ answers = NoAnswers
  /\ timeRemaining = Null
  /\ submitting = FALSE
  /\ interval = "none"
  /\ quizFetch = "none"
  /\ inflight = {}
  /\ posted = Null
  /\ panelAttempts = <<>>
  /\ panelLoading = TRUE
  /\ scoreboardData = <<>>
  /\ showScoreboardModal = FALSE
  /\ scoreboardLoading = FALSE
  /\ scoreboardFetches = 0
  /\ FormClosed
  /\ ListUnmounted
  /\ alertMsg = ""
  /\ event = NoEvent
  /\ postCount = 0
  /\ succeeded = {}
  /\ manualSubmits = 0
  /\ expirySignals = 0
  /\ sessionPosts = 0
  /\ failedSubmits = 0
  /\ ticks = 0

\* a step of QuizList's leaderboard leaves the rest of the application alone
OnQuizList ==
  /\ currentPage = "quiz"
  /\ posted' = Null
  /\ event' = NoEvent
  /\ UNCHANGED <<appVars, windowVars, nextAttemptId, mounted, hookVars,
                 interval, quizFetch, inflight, postCount, succeeded, countVars,
                 panelVars, formVars, listVars>>

\* a click on a quiz card's Leaderboard button (the modal covers the cards)
ShowScoreboard ==
  /\ OnQuizList
  /\ ~showScoreboardModal
  /\ IF currentUser = "none"
       \* currentUser.token throws inside the try: alert, finally
       THEN /\ alertMsg' = MsgScoreboardNoUser
            /\ scoreboardLoading' = FALSE
            /\ UNCHANGED <<scoreboardData, showScoreboardModal, scoreboardFetches>>
       ELSE /\ scoreboardFetches < MaxScoreboardFetches
            /\ scoreboardLoading' = TRUE
            /\ scoreboardFetches' = scoreboardFetches + 1
            /\ alertMsg' = ""
            /\ UNCHANGED <<scoreboardData, showScoreboardModal>>

\* showScoreboard after its await: setScoreboardData(results), modal, finally
ScoreboardLoaded(scores) ==
  /\ OnQuizList
  /\ scoreboardFetches > 0
  /\ scoreboardFetches' = scoreboardFetches - 1
  /\ scoreboardData' = Entries(scores)
  /\ showScoreboardModal' = TRUE
  /\ scoreboardLoading' = FALSE
  /\ alertMsg' = ""

\* showScoreboard's catch after a rejected apiFetch, then finally
ScoreboardFailed ==
  /\ OnQuizList
  /\ scoreboardFetches > 0
  /\ scoreboardFetches' = scoreboardFetches - 1
  /\ alertMsg' = MsgScoreboardFailed
  /\ scoreboardLoading' = FALSE
  /\ UNCHANGED <<scoreboardData, showScoreboardModal>>

\* the modal's close button
CloseScoreboard ==
  /\ OnQuizList
  /\ showScoreboardModal
  /\ showScoreboardModal' = FALSE
  /\ alertMsg' = ""
  /\ UNCHANGED <<scoreboardData, scoreboardLoading, scoreboardFetches>>

\* the list is rendered when the modal is open and not loading
LeaderboardShown == showScoreboardModal /\ ~scoreboardLoading

\* mutant of LeaderboardRows: the entries are listed last to first
LeaderboardRowsReversed(data) ==
  [i \in 1..Len(data) |->
     [rank |-> i, id |-> data[Len(data) + 1 - i].id,
      score |-> data[Len(data) + 1 - i].score]]

\* mutant of LeaderboardRows: the position is the rank of the score, so
\* entries with equal score share it
LeaderboardRowsRankedByScore(data) ==
  [i \in 1..Len(data) |->
     [rank |-> 1 + Cardinality({j \in 1..Len(data) : data[j].score > data[i].score}),
      id |-> data[i].id, score |-> data[i].score]]

\* scoreboardData.map((a, index) => ...): #{index + 1}, key a.id, {a.score}%
LeaderboardRows(data) ==
  [i \in 1..Len(data) |-> [rank |-> i, id |-> data[i].id, score |-> data[i].score]]

NextBoard ==
  \/ ShowScoreboard
  \/ \E scores \in Responses : ScoreboardLoaded(scores)
  \/ ScoreboardFailed
  \/ CloseScoreboard

SpecBoard == InitBoard /\ [][NextBoard]_vars

\* ------------------------------------------------ AdminPanel: the quiz form
\* a text is the sequence of its characters
FormTexts == {<<>>, <<" ">>, <<"a">>}

\* String.prototype.trim: the text without its leading and trailing whitespace
Trim(s) ==
  LET inked == {i \in 1..Len(s) : s[i] # " "} IN
  IF inked = {} THEN <<>>
  ELSE SubSeq(s, CHOOSE i \in inked : \A j \in inked : i <= j,
                 CHOOSE i \in inked : \A j \in inked : j <= i)

\* the alerts of handleQuizSave's checks and of its catch
MsgTitleAndQuestion == "Title and at least 1 question required"
MsgQuestionText == "All questions need text"
MsgNeedOptions == "Need options"
MsgSelectCorrect == "Select correct option"
MsgTextAnswer == "Text questions need correct answer"
MsgSaveFailed == "Save failed: HTTP 500"
MsgCannotLoad == "Cannot load quiz: HTTP 500"
MsgCopyFailed == "Failed to copy quiz: HTTP 500"
ValidationAlerts ==
  {MsgTitleAndQuestion, MsgQuestionText, MsgNeedOptions, MsgSelectCorrect,
   MsgTextAnswer}

\* q.options.length < 4: the form offers Add Option below four options
OptionLimit == 4

\* an option of a question of the form (its text is never checked)
Option(correct) == [isCorrect |-> correct]

\* the question + Add Question appends
NewQuestion ==
  [questionText |-> <<>>, type |-> "MULTIPLE_CHOICE",
   options |-> <<Option(TRUE)>>, correctText |-> <<>>]

\* the quizzes GET /api/quiz/{id} can return: one question each, its options
\* with the service's isCorrect flags
ServerQuizzes ==
  {[id |-> 1, title |-> <<"a">>,
    questions |-> <<[questionText |-> <<"a">>, type |-> "MULTIPLE_CHOICE",
                     options |-> <<Option(FALSE), Option(TRUE)>>,
                     correctText |-> <<>>]>>],
   [id |-> 1, title |-> <<"a">>,
    questions |-> <<[questionText |-> <<"a">>, type |-> "TEXT",
                     options |-> <<>>, correctText |-> <<"a">>]>>]}

\* startEditQuiz's form: the quiz's id, every option with isCorrect: false
EditForm(dto) ==
  [id |-> Some(dto.id), title |-> dto.title,
   questions |-> [i \in 1..Len(dto.questions) |->
     [dto.questions[i] EXCEPT
        !.options = [o \in 1..Len(@) |-> Option(FALSE)]]]]

\* handleCopyQuiz's form: id null, the options' flags kept (the title's
\* 'Copy of ' prefix keeps it non-blank)
CopyForm(dto) == [id |-> Null, title |-> dto.title, questions |-> dto.questions]

\* mutant of SaveError: the check of the number of options is dropped
SaveErrorWithoutOptionCount(form) ==
  IF Trim(form.title) = <<>> \/ Len(form.questions) < 1
    THEN MsgTitleAndQuestion
  ELSE
    LET Err(q) ==
          IF Trim(q.questionText) = <<>> THEN MsgQuestionText
          ELSE IF q.type # "TEXT"
            THEN IF ~\E o \in 1..Len(q.options) : q.options[o].isCorrect
                   THEN MsgSelectCorrect
                 ELSE ""
          ELSE IF Trim(q.correctText) = <<>> THEN MsgTextAnswer
          ELSE ""
        bad == {i \in 1..Len(form.questions) : Err(form.questions[i]) # ""}
    IN IF bad = {} THEN ""
       ELSE Err(form.questions[CHOOSE i \in bad : \A j \in bad : i <= j])

\* handleQuizSave's checks: the alert of the first one that fails, "" if none
SaveError(form) ==
  IF Trim(form.title) = <<>> \/ Len(form.questions) < 1
    THEN MsgTitleAndQuestion
  ELSE
    LET Err(q) ==
          IF Trim(q.questionText) = <<>> THEN MsgQuestionText
          ELSE IF q.type # "TEXT"
            THEN IF Len(q.options) < 2 THEN MsgNeedOptions
                 ELSE IF ~\E o \in 1..Len(q.options) : q.options[o].isCorrect
                   THEN MsgSelectCorrect
                 ELSE ""
          ELSE IF Trim(q.correctText) = <<>> THEN MsgTextAnswer
          ELSE ""
        bad == {i \in 1..Len(form.questions) : Err(form.questions[i]) # ""}
    IN IF bad = {} THEN ""
       ELSE Err(form.questions[CHOOSE i \in bad : \A j \in bad : i <= j])

\* q.options.findIndex(o => o.isCorrect), counted from 0; -1 if none
CorrectOptionIndex(options) ==
  LET marked == {o \in 1..Len(options) : options[o].isCorrect} IN
  IF marked = {} THEN -1
  ELSE (CHOOSE o \in marked : \A p \in marked : o <= p) - 1

\* the payload's questions: options and correctOptionIndex of a choice
\* question, correctText of a TEXT question
Payload(form) ==
  [title |-> form.title,
   questions |-> [i \in 1..Len(form.questions) |->
     LET q == form.questions[i] IN
     [questionText |-> q.questionText,
      type |-> q.type,
      options |-> IF q.type = "TEXT" THEN 0 ELSE Len(q.options),
      correctOptionIndex |->
        IF q.type = "TEXT" THEN Null ELSE Some(CorrectOptionIndex(q.options)),
      correctText |-> IF q.type = "TEXT" THEN Some(q.correctText) ELSE Null]]]

\* quizForm.id ? PUT /api/quiz/{id} : POST /api/quiz
SaveRequest(form) ==
  [method |-> IF form.id # Null THEN "PUT" ELSE "POST",
   id |-> form.id, payload |-> Payload(form)]

\* the application on the administrator's dashboard, the form closed
InitForm ==
  /\ currentPage = "admin-panel"
  /\ currentUser = "ADMIN"
  /\ restoring = FALSE
  /\ history = {"home", "login", "admin-panel"}
  /\ quizAttemptId = 0
  /\ currentQuizId = 0
  /\ quizResult = Null
  /\ nextAttemptId = 1
  /\ mounted = FALSE
  /\ quiz = Null
  /\ currentQuestionIndex = 0
  /\ answers = NoAnswers
  /\ timeRemaining = Null
  /\ submitting = FALSE
  /\ interval = "none"
  /\ quizFetch = "none"
  /\ inflight = {}
  /\ posted = Null
  /\ panelAttempts = <<>>
  /\ panelLoading = TRUE
  /\ scoreboardData = <<>>
  /\ showScoreboardModal = FALSE
  /\ scoreboardLoading = FALSE
  /\ scoreboardFetches = 0
  /\ FormClosed
  /\ ListUnmounted
  /\ alertMsg = ""
  /\ event = NoEvent
  /\ postCount = 0
  /\ succeeded = {}
  /\ manualSubmits = 0
  /\ expirySignals = 0
  /\ sessionPosts = 0
  /\ failedSubmits = 0
  /\ ticks = 0

\* a step of AdminPanel, logging e, leaves the rest of the application alone
AdminStep(e) ==
  /\ currentPage = "admin-panel"
  /\ posted' = Null
  /\ event' = e
  /\ UNCHANGED <<appVars, windowVars, nextAttemptId, mounted, hookVars,
                 interval, quizFetch, inflight, postCount, succeeded, countVars,
                 boardVars, panelVars, listVars>>

OnAdminPanel == AdminStep(NoEvent)

\* a step of the open form other than Save Quiz
OnQuizForm ==
  /\ OnAdminPanel
  /\ showQuizForm
  /\ alertMsg' = ""
  /\ saveRequest' = Null
  /\ UNCHANGED <<formLoad, saves>>

\* + Create Quiz on the dashboard (the open form covers the dashboard)
StartCreateQuiz ==
  /\ OnAdminPanel
  /\ ~showQuizForm
  /\ quizForm' = EmptyForm
  /\ showQuizForm' = TRUE
  /\ alertMsg' = ""
  /\ saveRequest' = Null
  /\ UNCHANGED <<formLoad, saves>>

\* Edit or Copy on a quiz of the dashboard: GET /api/quiz/{id} is sent
StartLoad(kind) ==
  /\ OnAdminPanel
  /\ ~showQuizForm
  /\ formLoad = "none"
  /\ formLoad' = kind
  /\ alertMsg' = ""
  /\ saveRequest' = Null
  /\ UNCHANGED <<showQuizForm, quizForm, saves>>

\* startEditQuiz / handleCopyQuiz after the await: setQuizForm, setShowQuizForm
FormLoaded(dto) ==
  /\ OnAdminPanel
  /\ formLoad # "none"
  /\ quizForm' = IF formLoad = "edit" THEN EditForm(dto) ELSE CopyForm(dto)
  /\ showQuizForm' = TRUE
  /\ formLoad' = "none"
  /\ alertMsg' = ""
  /\ saveRequest' = Null
  /\ UNCHANGED saves

\* their catch: alert, the form as it was
FormLoadFailed ==
  /\ OnAdminPanel
  /\ formLoad # "none"
  /\ formLoad' = "none"
  /\ alertMsg' = IF formLoad = "edit" THEN MsgCannotLoad ELSE MsgCopyFailed
  /\ saveRequest' = Null
  /\ UNCHANGED <<showQuizForm, quizForm, saves>>

\* the form's close button and its Cancel button: setShowQuizForm(false)
CloseForm ==
  /\ OnQuizForm
  /\ showQuizForm' = FALSE
  /\ UNCHANGED quizForm

\* the title input changes
SetTitle(t) ==
  /\ OnQuizForm
  /\ t # quizForm.title
  /\ quizForm' = [quizForm EXCEPT !.title = t]
  /\ UNCHANGED showQuizForm

\* + Add Question
AddQuestion ==
  /\ OnQuizForm
  /\ Len(quizForm.questions) < MaxFormQuestions
  /\ quizForm' = [quizForm EXCEPT !.questions = Append(@, NewQuestion)]
  /\ UNCHANGED showQuizForm

\* the sequence without its i-th element: splice(i, 1)
Splice(s, i) == [j \in 1..(Len(s) - 1) |-> IF j < i THEN s[j] ELSE s[j + 1]]

\* Remove Question
RemoveQuestion(i) ==
  /\ OnQuizForm
  /\ i \in 1..Len(quizForm.questions)
  /\ quizForm' = [quizForm EXCEPT !.questions = Splice(@, i)]
  /\ UNCHANGED showQuizForm

\* the question's text input changes
SetQuestionText(i, t) ==
  /\ OnQuizForm
  /\ i \in 1..Len(quizForm.questions)
  /\ t # quizForm.questions[i].questionText
  /\ quizForm' = [quizForm EXCEPT !.questions[i].questionText = t]
  /\ UNCHANGED showQuizForm

\* the question's type select changes: TEXT empties options and correctText
SetType(i, type) ==
  /\ OnQuizForm
  /\ i \in 1..Len(quizForm.questions)
  /\ type # quizForm.questions[i].type
  /\ quizForm' =
       IF type = "TEXT"
         THEN [quizForm EXCEPT !.questions[i].type = type,
                               !.questions[i].options = <<>>,
                               !.questions[i].correctText = <<>>]
         ELSE [quizForm EXCEPT !.questions[i].type = type]
  /\ UNCHANGED showQuizForm

\* the Correct answer input of a TEXT question changes
SetCorrectText(i, t) ==
  /\ OnQuizForm
  /\ i \in 1..Len(quizForm.questions)
  /\ quizForm.questions[i].type = "TEXT"
  /\ t # quizForm.questions[i].correctText
  /\ quizForm' = [quizForm EXCEPT !.questions[i].correctText = t]
  /\ UNCHANGED showQuizForm

\* an unchecked radio of a choice question is checked: isCorrect: idx === oi
MarkCorrect(i, oi) ==
  /\ OnQuizForm
  /\ i \in 1..Len(quizForm.questions)
  /\ quizForm.questions[i].type # "TEXT"
  /\ oi \in 1..Len(quizForm.questions[i].options)
  /\ ~quizForm.questions[i].options[oi].isCorrect
  /\ quizForm' = [quizForm EXCEPT !.questions[i].options =
                    [o \in 1..Len(@) |-> Option(o = oi)]]
  /\ UNCHANGED showQuizForm

\* Add Option, offered below OptionLimit options
AddOption(i) ==
  /\ OnQuizForm
  /\ i \in 1..Len(quizForm.questions)
  /\ quizForm.questions[i].type # "TEXT"
  /\ Len(quizForm.questions[i].options) < OptionLimit
  /\ quizForm' = [quizForm EXCEPT !.questions[i].options =
                    Append(@, Option(FALSE))]
  /\ UNCHANGED showQuizForm

\* an option's Delete, offered above two options
DeleteOption(i, oi) ==
  /\ OnQuizForm
  /\ i \in 1..Len(quizForm.questions)
  /\ quizForm.questions[i].type # "TEXT"
  /\ Len(quizForm.questions[i].options) > 2
  /\ oi \in 1..Len(quizForm.questions[i].options)
  /\ quizForm' = [quizForm EXCEPT !.questions[i].options = Splice(@, oi)]
  /\ UNCHANGED showQuizForm

\* Save Quiz: handleQuizSave up to its await
HandleQuizSave ==
  /\ AdminStep(SaveClicked)
  /\ showQuizForm
  /\ SaveError(quizForm) = "" => saves < MaxSaves
  /\ alertMsg' = SaveError(quizForm)
  /\ IF SaveError(quizForm) # ""
       THEN /\ saveRequest' = Null
            /\ UNCHANGED saves
       ELSE /\ saveRequest' = Some(SaveRequest(quizForm))
            /\ saves' = saves + 1
  /\ UNCHANGED <<showQuizForm, quizForm, formLoad>>

\* the save request succeeds: setShowQuizForm(false), fetchDashboardData()
SaveSucceeded ==
  /\ OnAdminPanel
  /\ saves > 0
  /\ saves' = saves - 1
  /\ showQuizForm' = FALSE
  /\ alertMsg' = ""
  /\ saveRequest' = Null
  /\ UNCHANGED <<quizForm, formLoad>>

\* the save request fails: alert('Save failed: ' + e.message)
SaveFailed ==
  /\ OnAdminPanel
  /\ saves > 0
  /\ saves' = saves - 1
  /\ alertMsg' = MsgSaveFailed
  /\ saveRequest' = Null
  /\ UNCHANGED <<showQuizForm, quizForm, formLoad>>

NextForm ==
  \/ StartCreateQuiz
  \/ \E kind \in {"edit", "copy"} : StartLoad(kind)
  \/ \E dto \in ServerQuizzes : FormLoaded(dto)
  \/ FormLoadFailed
  \/ CloseForm
  \/ \E t \in FormTexts : SetTitle(t)
  \/ AddQuestion
  \/ \E i \in 1..MaxFormQuestions : RemoveQuestion(i)
  \/ \E i \in 1..MaxFormQuestions : \E t \in FormTexts : SetQuestionText(i, t)
  \/ \E i \in 1..MaxFormQuestions :
       \E type \in {"MULTIPLE_CHOICE", "TRUE_FALSE", "TEXT"} : SetType(i, type)
  \/ \E i \in 1..MaxFormQuestions : \E t \in FormTexts : SetCorrectText(i, t)
  \/ \E i \in 1..MaxFormQuestions : \E oi \in 1..OptionLimit : MarkCorrect(i, oi)
  \/ \E i \in 1..MaxFormQuestions : AddOption(i)
  \/ \E i \in 1..MaxFormQuestions : \E oi \in 1..OptionLimit : DeleteOption(i, oi)
  \/ HandleQuizSave
  \/ SaveSucceeded
  \/ SaveFailed

SpecForm == InitForm /\ [][NextForm]_vars

\* ------------------------------------------------- QuizList: the quiz cards
QuizIds == 1..NumQuizzes

\* q.title of the quizzes: one lower-case letter each
QuizTitles == <<"a", "b", "c", "d">>
QuizTitle(q) == QuizTitles[((q - 1) % Len(QuizTitles)) + 1]
\* what the search input can hold
SearchTerms == {"", " ", "a"}

\* GET /api/quiz: the active quizzes, each once, in the service's order
RECURSIVE QuizLists(_)
QuizLists(ids) ==
  {<<>>} \cup UNION {{<<q>> \o rest : rest \in QuizLists(ids \ {q})} : q \in ids}

\* GET /api/quiz/attempts: an attempt of each quiz of the history, by quiz id
RECURSIVE AttemptsUpTo(_, _)
AttemptsUpTo(attempted, n) ==
  IF n = 0 THEN <<>>
  ELSE IF n \in attempted
    THEN Append(AttemptsUpTo(attempted, n - 1), [id |-> n, quizId |-> n])
  ELSE AttemptsUpTo(attempted, n - 1)

\* the application on the quiz list, fetchData awaiting the quizzes; the
\* service holds the user's attempt history
InitList ==
  /\ currentPage = "quiz"
  /\ currentUser \in {"none", "USER"}
  /\ restoring = FALSE
  /\ history = IF currentUser = "USER"
                 THEN {"home", "login", "user-panel", "quiz"}
                 ELSE {"home", "quiz"}
  /\ quizAttemptId = 0
  /\ currentQuizId = 0
  /\ quizResult = Null
  /\ attemptHistory \in SUBSET QuizIds
  /\ currentUser = "none" => attemptHistory = {}
  /\ nextAttemptId = NumQuizzes + 1
  /\ mounted = FALSE
  /\ quiz = Null
  /\ currentQuestionIndex = 0
  /\ answers = NoAnswers
  /\ timeRemaining = Null
  /\ submitting = FALSE
  /\ interval = "none"
  /\ quizFetch = "none"
  /\ inflight = {}
  /\ posted = Null
  /\ panelAttempts = <<>>
  /\ panelLoading = TRUE
  /\ scoreboardData = <<>>
  /\ showScoreboardModal = FALSE
  /\ scoreboardLoading = FALSE
  /\ scoreboardFetches = 0
  /\ FormClosed
  /\ listFetch = "quizzes"
  /\ listQuizzes = <<>>
  /\ listAttempts = <<>>
  /\ listLoading = TRUE
  /\ searchTerm = ""
  /\ starts = {}
  /\ startRequest = Null
  /\ alertMsg = ""
  /\ event = NoEvent
  /\ postCount = 0
  /\ succeeded = {}
  /\ manualSubmits = 0
  /\ expirySignals = 0
  /\ sessionPosts = 0
  /\ failedSubmits = 0
  /\ ticks = 0

\* a step of the quiz cards that stays on the page
OnQuizCards ==
  /\ currentPage = "quiz"
  /\ listFetch # "none"
  /\ posted' = Null
  /\ event' = NoEvent
  /\ UNCHANGED <<appVars, windowVars, nextAttemptId, mounted, hookVars,
                 interval, quizFetch, inflight, postCount, succeeded, countVars,
                 boardVars, panelVars, formVars, attemptHistory>>

\* fetchData after its first await: setQuizzes, setFilteredQuizzes; with a
\* user it goes on to await the attempts, without one it ends: setLoading(false)
QuizzesLoaded(qs) ==
  /\ OnQuizCards
  /\ listFetch = "quizzes"
  /\ listQuizzes' = qs
  /\ IF currentUser # "none"
       THEN listFetch' = "attempts" /\ UNCHANGED listLoading
       ELSE listFetch' = "done" /\ listLoading' = FALSE
  /\ alertMsg' = ""
  /\ startRequest' = Null
  /\ UNCHANGED <<listAttempts, searchTerm, starts>>

\* fetchData after its second await: setAttempts(...), setLoading(false)
ListAttemptsLoaded ==
  /\ OnQuizCards
  /\ listFetch = "attempts"
  /\ listAttempts' = AttemptsUpTo(attemptHistory, NumQuizzes)
  /\ listLoading' = FALSE
  /\ listFetch' = "done"
  /\ alertMsg' = ""
  /\ startRequest' = Null
  /\ UNCHANGED <<listQuizzes, searchTerm, starts>>

\* one of fetchData's requests rejects: nothing catches it, loading stays true
ListFetchFailed ==
  /\ OnQuizCards
  /\ listFetch \in {"quizzes", "attempts"}
  /\ listFetch' = "failed"
  /\ alertMsg' = ""
  /\ startRequest' = Null
  /\ UNCHANGED <<listQuizzes, listAttempts, listLoading, searchTerm, starts>>

\* handleSearchChange / clearSearch
SetSearchTerm(t) ==
  /\ OnQuizCards
  /\ t # searchTerm
  /\ searchTerm' = t
  /\ alertMsg' = ""
  /\ startRequest' = Null
  /\ UNCHANGED <<listQuizzes, listAttempts, listLoading, listFetch, starts>>

\* quiz.title.toLowerCase().includes(searchTerm.toLowerCase()), the titles
\* and the terms being at most one character long
TitleIncludes(q, term) == term = "" \/ term = QuizTitle(q)

\* the filter effect's filteredQuizzes: all quizzes for a blank term
FilteredQuizzes ==
  IF searchTerm \in {"", " "} THEN listQuizzes
  ELSE SelectSeq(listQuizzes, LAMBDA q : TitleIncludes(q, searchTerm))

\* the quizzes whose cards are displayed
Cards == {FilteredQuizzes[i] : i \in 1..Len(FilteredQuizzes)}

\* alreadyAttempted(quizId): attempts.find(a => a.quizId === quizId)
AlreadyAttempted(q) ==
  \E i \in 1..Len(listAttempts) : listAttempts[i].quizId = q

\* the card's buttons: currentUser && !attempted, currentUser && attempted
StartOffered(q) == q \in Cards /\ currentUser # "none" /\ ~AlreadyAttempted(q)
ViewResultsOffered(q) ==
  q \in Cards /\ currentUser # "none" /\ AlreadyAttempted(q)

\* a click on Start Quiz: POST /api/quiz/{id}/start is sent
ClickStartQuiz(q) ==
  /\ OnQuizCards
  /\ StartOffered(q)
  /\ q \notin starts
  /\ starts' = starts \cup {q}
  /\ startRequest' = Some(q)
  /\ alertMsg' = ""
  /\ UNCHANGED <<listQuizzes, listAttempts, listLoading, listFetch, searchTerm>>

\* the start request rejects: alert(err.message)
StartRejected(q) ==
  /\ OnQuizCards
  /\ q \in starts
  /\ starts' = starts \ {q}
  /\ alertMsg' = MsgStart
  /\ startRequest' = Null
  /\ UNCHANGED <<listQuizzes, listAttempts, listLoading, listFetch, searchTerm>>

\* QuizList is unmounted by a navigation
UnmountQuizList ==
  /\ listFetch' = "none"
  /\ listQuizzes' = <<>>
  /\ listAttempts' = <<>>
  /\ listLoading' = TRUE
  /\ searchTerm' = ""
  /\ starts' = {}
  /\ startRequest' = Null

\* the start request succeeds with a new attempt: the window ids are set,
\* navigateTo('quiz-attempt')
StartAccepted(q) ==
  /\ currentPage = "quiz"
  /\ q \in starts
  /\ quizAttemptId' = nextAttemptId
  /\ currentQuizId' = q
  /\ nextAttemptId' = nextAttemptId + 1
  /\ currentPage' = "quiz-attempt"
  /\ history' = history \cup {"quiz-attempt"}
  /\ MountQuizAttempt
  /\ UnmountQuizList
  /\ Quiet
  /\ event' = NoEvent
  /\ UNCHANGED <<currentUser, restoring, quizResult, inflight, postCount,
                 succeeded, boardVars, panelVars, formVars, attemptHistory>>

\* a click on View Results: window.quizResult = attempted,
\* navigateTo('user-panel')
ClickViewResults(q) ==
  /\ currentPage = "quiz"
  /\ ViewResultsOffered(q)
  /\ quizResult' = Some(q)
  /\ currentPage' = "user-panel"
  /\ history' = history \cup {"user-panel"}
  /\ UnmountQuizList
  /\ Quiet
  /\ event' = NoEvent
  /\ UNCHANGED <<currentUser, restoring, quizAttemptId, currentQuizId,
                 nextAttemptId, mounted, hookVars, interval, quizFetch, inflight,
                 postCount, succeeded, countVars, boardVars, panelVars, formVars,
                 attemptHistory>>

NextList ==
  \/ \E qs \in QuizLists(QuizIds) : QuizzesLoaded(qs)
  \/ ListAttemptsLoaded
  \/ ListFetchFailed
  \/ \E t \in SearchTerms : SetSearchTerm(t)
  \/ \E q \in QuizIds : ClickStartQuiz(q)
  \/ \E q \in QuizIds : StartRejected(q)
  \/ \E q \in QuizIds : StartAccepted(q)
  \/ \E q \in QuizIds : ClickViewResults(q)

SpecList == InitList /\ [][NextList]_vars

TypeOK ==
  /\ currentPage \in Pages \cup {"admin-panel"}
  /\ currentUser \in {"none", "USER", "ADMIN"}
  /\ showQuizForm \in BOOLEAN
  /\ quizForm.title \in FormTexts
  /\ Len(quizForm.questions) <= MaxFormQuestions
  /\ \A i \in 1..Len(quizForm.questions) :
       /\ quizForm.questions[i].type \in {"MULTIPLE_CHOICE", "TRUE_FALSE", "TEXT"}
       /\ Len(quizForm.questions[i].options) <= OptionLimit
  /\ formLoad \in {"none", "edit", "copy"}
  /\ saves \in 0..MaxSaves
  /\ listLoading \in BOOLEAN
  /\ searchTerm \in SearchTerms
  /\ listFetch \in {"none", "quizzes", "attempts", "done", "failed"}
  /\ listQuizzes \in QuizLists(QuizIds)
  /\ attemptHistory \subseteq QuizIds
  /\ starts \subseteq QuizIds
  /\ restoring \in BOOLEAN
  /\ restoring => currentUser = "none"
  /\ event.type \in {"none", "redirect", "select", "save"}
  /\ \A q \in QuestionIds : answers[q] = Null \/ Val(answers[q]) \in Choices(q)
  /\ showScoreboardModal \in BOOLEAN
  /\ panelLoading \in BOOLEAN
  /\ \A i \in 1..Len(panelAttempts) : panelAttempts[i] \in Attempts
  /\ scoreboardLoading \in BOOLEAN
  /\ scoreboardFetches \in 0..MaxScoreboardFetches
  /\ Len(scoreboardData) <= MaxEntries
  /\ \A i \in 1..Len(scoreboardData) : scoreboardData[i].score \in Scores
  /\ history \subseteq Pages \cup {"admin-panel"}
  /\ quizAttemptId \in 0..(MaxAttempts + NumQuizzes)
  /\ mounted \in BOOLEAN
  /\ submitting \in BOOLEAN
  /\ interval \in {"none", "active", "cleared"}
  /\ quizFetch \in {"none", "pending"}
  /\ postCount \in 0..MaxPosts
  /\ currentQuestionIndex \in 0..(NumQuestions - 1)


\* ------------------------------------------------------------------ claims

\* C1: in one QuizAttempt instance, when one click on Submit Quiz and the
\* interval's expiry call of handleSubmit have both occurred, in either order,
\* exactly one POST /api/quiz/submit has been issued.
C1_ExactlyOnePost ==
  (mounted /\ manualSubmits = 1 /\ expirySignals = 1) => sessionPosts = 1

\* C1 witness: the expiry arrived while the click's request was in flight (it
\* reset the flag of the request still in flight)
C1_BothTriggersInFlight ==
  /\ mounted
  /\ manualSubmits = 1
  /\ expirySignals = 1
  /\ sessionPosts = 1
  /\ \E r \in inflight : r.live
  /\ ~submitting

\* C2 (as claimed): while no submit request of the instance has failed, the
\* instance has sent at most one submit request.
C2_AtMostOnePost == (mounted /\ failedSubmits = 0) => sessionPosts <= 1

\* C3 (as claimed): once the countdown of a loaded quiz has run and signalled
\* expiry, with no manual submit, a submit request has been sent.
C3_ExpiryForcesSubmission ==
  (mounted /\ quiz # Null /\ ticks > 0 /\ expirySignals = 1 /\ manualSubmits = 0)
    => sessionPosts >= 1

\* C4 (as claimed): a submit request is never sent with an attempt id whose
\* submit request has already succeeded.
C4_NoResubmit == posted # Null => Val(posted).quizAttemptId \notin succeeded

\* C5 (as claimed): once Submit Quiz has been clicked, no step of the instance
\* changes the remaining time or signals expiry.
C5_TimerStopped ==
  [][(mounted /\ mounted' /\ manualSubmits >= 1)
       => (timeRemaining' = timeRemaining /\ expirySignals' = expirySignals)]_vars


\* a step in which a still-mounted instance handles the failure of its request
FailureHandled == mounted' /\ \E r \in inflight : r.live /\ r \notin inflight'

C7_ResendOnlyByClick ==
  [][(mounted /\ failedSubmits >= 1 /\ posted' # Null)
       => manualSubmits' = manualSubmits + 1]_vars

\* C7 witness: the second click, after the first request failed, sends again
C7_ResentAfterFailure ==
  /\ mounted
  /\ failedSubmits >= 1
  /\ posted # Null
  /\ manualSubmits = 2

\* C8: an instance signals expiry at most once, its interval is no longer
\* set once it has, and an instance left mounted does signal expiry.
C8_ExpiryExactlyOnce ==
  /\ [](expirySignals <= 1)
  /\ [](expirySignals >= 1 => interval # "active")
  /\ (mounted /\ interval = "active") ~> (expirySignals = 1 \/ ~mounted)

\* C8 witness: the countdown ran down and signalled expiry
C8_ExpiredOnce ==
  /\ mounted
  /\ quiz # Null
  /\ ticks > 0
  /\ expirySignals = 1
  /\ interval = "cleared"

\* C9 (as claimed): a countdown initialised to T seconds has processed
\* exactly T ticks when it has signalled expiry.
C9_ExpiryAfterTTicks ==
  (mounted /\ quiz # Null /\ ticks > 0 /\ expirySignals = 1)
    => ticks = ConfiguredSeconds(quiz)

\* C10: once the quiz is loaded the remaining time is between 0 and
\* timeLimitMinutes * 60, and it stays 0 once it is 0.
C10_RemainingInRange ==
  /\ [](quiz # Null
         => /\ timeRemaining # Null
            /\ Val(timeRemaining) \in 0..ConfiguredSeconds(quiz))
  /\ [][(quiz # Null /\ quiz' # Null /\ timeRemaining = Some(0))
          => timeRemaining' = Some(0)]_vars

\* C10 witness: the remaining time is 0 and the expiry tick has been processed
C10_StaysAtZero ==
  /\ quiz # Null
  /\ timeRemaining = Some(0)
  /\ expirySignals = 1
  /\ ticks > ConfiguredSeconds(quiz)

\* ---------------------------------------------------------------------------
\* C11: when the quiz fetch fails the session is aborted and the user is back
\* on quiz browsing: no mounted session is left without a quiz once its fetch
\* has ended.
C11_LoadFailureAborts ==
  (mounted /\ quizFetch = "none") => quiz # Null

\* C12: a session started without a user, a quiz id or an attempt id calls
\* navigateTo('quiz') and neither fetches the quiz nor posts: the step that
\* logs init's redirect ends on the quiz page with no session, no fetch and
\* no request, and whatever is mounted or fetching has its user and its ids.
MissingContext == currentUser = "none" \/ currentQuizId = 0 \/ quizAttemptId = 0

C12_NoContextRedirects ==
  /\ event = InitRedirected =>
       /\ currentPage = "quiz"
       /\ ~mounted
       /\ quizFetch = "none"
       /\ posted = Null
       /\ interval # "active"
  /\ (mounted \/ quizFetch = "pending" \/ posted # Null) => ~MissingContext

C12_RedirectedWithoutIds ==
  /\ event = InitRedirected
  /\ currentUser = "USER"
  /\ currentQuizId = 0
  /\ currentPage = "quiz"

\* the mounted session has a submit request awaiting its response
InFlight == \E r \in inflight : r.live

\* C13 (as claimed): while the session's submit request is in flight its
\* answers are frozen: no step that keeps the session changes them.
C13_AnswersFrozenInFlight ==
  [][(InFlight /\ mounted') => answers' = answers]_vars

\* C14 (as claimed): once the attempt held in window.quizAttemptId has been
\* submitted successfully, an answer selection changes neither the answers
\* nor the stored result.
C14_NoSelectionAfterCompleted ==
  [][(quizAttemptId \in succeeded /\ event'.type = "select") =>
       (answers' = answers /\ quizResult' = quizResult)]_vars

\* C15: handleAnswerSelect is last-write-wins per question: a selection sets
\* the answer of its question to the value selected and leaves every other
\* question's answer as it was, and nothing else changes the answers of a
\* session, so each question holds the last value set for it.
C15_LastWriteWins ==
  [][/\ event'.type = "select" =>
          /\ answers'[event'.questionId] = event'.value
          /\ \A o \in QuestionIds \ {event'.questionId} : answers'[o] = answers[o]
     /\ (mounted /\ mounted' /\ event'.type # "select") => answers' = answers]_vars

C15_SelectedWithOtherAnswered ==
  /\ event.type = "select"
  /\ answers[event.questionId] = event.value
  /\ \E o \in QuestionIds \ {event.questionId} : answers[o] # Null

\* the entries of a request's answers list that are about question q
EntriesFor(list, q) == {i \in 1..Len(list) : list[i].questionId = q}

\* C16: the answers list of every submit request has exactly one entry for
\* each question answered when the submission is triggered, carrying that
\* answer's selectedOptionId and textAnswer, and no entry for any other
\* question.
C16_BodyHoldsCapturedAnswers ==
  posted # Null =>
    LET list == Val(posted).answers IN
    /\ \A i \in 1..Len(list) : list[i].questionId \in QuestionIds
    /\ \A q \in QuestionIds :
         IF answers[q] = Null THEN EntriesFor(list, q) = {}
         ELSE /\ Cardinality(EntriesFor(list, q)) = 1
              /\ \A i \in EntriesFor(list, q) :
                   /\ list[i].selectedOptionId = Val(answers[q]).selectedOptionId
                   /\ list[i].textAnswer = Val(answers[q]).textAnswer

C16_PostedWithOneAnswered ==
  /\ posted # Null
  /\ \E q \in QuestionIds : answers[q] # Null
  /\ \E q \in QuestionIds : answers[q] = Null
  /\ Len(Val(posted).answers) = 1

\* C17: the timeTakenSeconds of every submit request is the quiz's
\* timeLimitMinutes*60 minus the time remaining when the submission is
\* triggered, and lies between 0 and timeLimitMinutes*60.
C17_TimeTakenIsElapsed ==
  posted # Null =>
    LET taken == Val(posted).timeTakenSeconds
        limit == Val(quiz).timeLimitMinutes * SecondsPerMinute IN
    /\ taken = limit - Val(timeRemaining)
    /\ taken >= 0
    /\ taken <= limit

C17_PostedMidCountdown ==
  /\ posted # Null
  /\ Val(posted).timeTakenSeconds > 0
  /\ Val(posted).timeTakenSeconds < Val(quiz).timeLimitMinutes * SecondsPerMinute

\* C18: while a quiz with N questions is shown, the current question index
\* stays within 0..N-1 whatever Previous and Next clicks are made.
C18_IndexInRange ==
  (mounted /\ quiz # Null) =>
    /\ currentQuestionIndex >= 0
    /\ currentQuestionIndex <= Val(quiz).total - 1

C18_AtLastQuestion ==
  /\ mounted
  /\ quiz # Null
  /\ currentQuestionIndex > 0
  /\ currentQuestionIndex = Val(quiz).total - 1

\* C19 (as claimed): the leaderboard lists the fetched entries by descending
\* score, whatever the order the service delivered them in.
C19_LeaderboardDescending ==
  LeaderboardShown =>
    LET rows == LeaderboardRows(scoreboardData) IN
    \A i, j \in 1..Len(rows) : i < j => rows[i].score >= rows[j].score

\* C20: two leaderboard entries with equal score are listed in the order the
\* service delivered them.
C20_TiesKeepDeliveredOrder ==
  LeaderboardShown =>
    LET rows == LeaderboardRows(scoreboardData) IN
    \A i, j \in 1..Len(rows) :
       (i < j /\ rows[i].score = rows[j].score) => rows[i].id < rows[j].id

C20_TieShown ==
  /\ LeaderboardShown
  /\ LET rows == LeaderboardRows(scoreboardData) IN
     /\ \E i, j \in 1..Len(rows) : i < j /\ rows[i].score = rows[j].score
     /\ \E i, j \in 1..Len(rows) : rows[i].score # rows[j].score

\* C21: the k-th entry listed on the leaderboard carries position k, so the
\* positions are 1..n, each once, also when scores tie.
C21_PositionsByOrder ==
  LeaderboardShown =>
    LET rows == LeaderboardRows(scoreboardData) IN
    /\ Len(rows) = Len(scoreboardData)
    /\ \A k \in 1..Len(rows) : rows[k].rank = k
    /\ {rows[k].rank : k \in 1..Len(rows)} = 1..Len(scoreboardData)

C21_TiedEntriesRanked ==
  /\ LeaderboardShown
  /\ LET rows == LeaderboardRows(scoreboardData) IN
     \E i, j \in 1..Len(rows) :
        /\ j = i + 1
        /\ rows[i].score = rows[j].score
        /\ rows[j].rank = rows[i].rank + 1

\* C22 (as claimed): every score card of an attempt with 0 <= correctAnswers
\* <= totalQuestions and totalQuestions >= 1 shows correctAnswers /
\* totalQuestions * 100 rounded half-up, an integer in 0..100, and shows
\* totalQuestions - correctAnswers as the incorrect count.
C22_PercentageRoundsHalfUp ==
  \A i \in 1..Len(ScoreCards) :
    LET c == panelAttempts[i].correctAnswers
        t == panelAttempts[i].totalQuestions
    IN t >= 1 =>
         /\ ScoreCards[i].percentage = Shown((200 * c + t) \div (2 * t))
         /\ ScoreCards[i].percentage.value \in 0..100
         /\ ScoreCards[i].incorrect = t - c

\* C23 (as claimed): no score card with a percentage is produced for an
\* attempt whose totalQuestions is 0.
C23_ZeroTotalFailsFast ==
  \A i \in 1..Len(panelAttempts) :
    panelAttempts[i].totalQuestions = 0 => i \notin DOMAIN ScoreCards

\* C24 (as claimed): a successful submit stores the result in
\* window.quizResult and hands over to the user's dashboard, and from then on
\* the session of that attempt is never again in progress (mounted with its
\* quiz loaded) and sends no request.
C24_CompletedIsTerminal ==
  [][/\ succeeded' # succeeded =>
          /\ quizResult' # Null
          /\ ~mounted'
          /\ currentUser = "USER" => currentPage' = "user-panel"
     /\ (quizAttemptId \in succeeded /\ quizAttemptId' = quizAttemptId) =>
          /\ ~(mounted' /\ quiz' # Null)
          /\ posted' = Null]_vars

\* C25 (as claimed): while the quiz has not been received no tick is
\* processed and no expiry is signalled: the remaining time of a loading
\* session is unset and its expiry has not fired.
C25_NoTickWhileLoading ==
  (mounted /\ quiz = Null) => (timeRemaining = Null /\ expirySignals = 0)

\* C26: a tick processed while the remaining time is above 0 lowers it by
\* exactly 1 and leaves the answers, the current question index, the loaded
\* quiz and the submitting flag as they were.
C26_TickFrame ==
  [][(mounted' /\ GreaterThanZero(timeRemaining)
        /\ timeRemaining' # timeRemaining) =>
       /\ Val(timeRemaining') = Val(timeRemaining) - 1
       /\ answers' = answers
       /\ currentQuestionIndex' = currentQuestionIndex
       /\ quiz' = quiz
       /\ submitting' = submitting]_vars

C26_TickedWhileSubmitting ==
  /\ mounted
  /\ submitting
  /\ ticks >= 2
  /\ GreaterThanZero(timeRemaining)
  /\ currentQuestionIndex > 0
  /\ \E q \in QuestionIds : answers[q] # Null

\* C27: every captured answer has exactly one meaningful field, by the type
\* of its question: MULTIPLE_CHOICE holds an option id of the question and a
\* null text; TRUE_FALSE holds a null option id and the text "True" or
\* "False"; TEXT holds a null option id and the typed text.
C27_AnswerShapeByType ==
  \A q \in QuestionIds :
    answers[q] # Null =>
      LET a == Val(answers[q]) IN
      CASE QuestionType(q) = "MULTIPLE_CHOICE" ->
             /\ a.selectedOptionId # Null
             /\ Val(a.selectedOptionId) \in OptionIds
             /\ a.textAnswer = Null
        [] QuestionType(q) = "TRUE_FALSE" ->
             /\ a.selectedOptionId = Null
             /\ a.textAnswer \in {Some("True"), Some("False")}
        [] QuestionType(q) = "TEXT" ->
             /\ a.selectedOptionId = Null
             /\ a.textAnswer # Null
             /\ Val(a.textAnswer) \in Texts

\* a question of each of the three types holds a captured answer
C27_EachTypeAnswered ==
  \A t \in {"MULTIPLE_CHOICE", "TRUE_FALSE", "TEXT"} :
    \E q \in QuestionIds : QuestionType(q) = t /\ answers[q] # Null

\* what C28 requires of a form that is saved: a non-empty title, at least one
\* question, every question with a non-empty text, every non-TEXT question
\* with at least 2 options and one marked correct, every TEXT question with a
\* non-empty correct answer
FormComplete(form) ==
  /\ form.title # <<>>
  /\ Len(form.questions) >= 1
  /\ \A i \in 1..Len(form.questions) :
       LET q == form.questions[i] IN
       /\ q.questionText # <<>>
       /\ q.type # "TEXT" =>
            /\ Len(q.options) >= 2
            /\ \E o \in 1..Len(q.options) : q.options[o].isCorrect
       /\ q.type = "TEXT" => q.correctText # <<>>

C29_TeardownCancelsCountdown ==
  [][/\ ~mounted' => interval' # "active"
     /\ ~mounted =>
          /\ timeRemaining' = Null
          /\ ticks' = 0
          /\ expirySignals' = 0
          /\ posted' = Null]_vars

\* an attempt was started and its instance torn down before any submission
\* succeeded: the page was left with the countdown's interval set
C29_LeftBeforeSubmitting ==
  /\ ~mounted
  /\ quizAttemptId # 0
  /\ succeeded = {}
  /\ interval = "none"

\* C30 (as claimed): in every state in which quiz cards are displayed to a
\* logged-in user, also while the attempt history is being fetched, the card of
\* a quiz with an entry in the user's attempt history offers View Results and
\* does not offer Start Quiz.
C30_StartOnlyIfNotAttempted ==
  (currentPage = "quiz" /\ currentUser # "none") =>
    \A q \in Cards :
      q \in attemptHistory => (ViewResultsOffered(q) /\ ~StartOffered(q))

====
